---- MODULE Spec2Model ----
(***************************************************************************)
(* St Johns Park court checker: the page extractor                         *)
(* (StJohnsParkChecker.check_court_availability), the 7-day aggregator     *)
(* (get_all_slots_summary) and the GitHub Actions runner                   *)
(* (GitHubCourtMonitor.run_check / send_notification).                     *)
(*                                                                         *)
(* A court f'court_{n}' is written n.  A date is its offset from today     *)
(* (get_available_dates: today + i days, i = 0..6), which orders like the  *)
(* '%Y-%m-%d' string.  A span's class attribute is the set of its tokens.  *)
(***************************************************************************)
EXTENDS Integers, Sequences, FiniteSets, TLC

VARIABLES
    email_user,          \* os.getenv('EMAIL_USER') is set
    email_password,      \* os.getenv('EMAIL_PASSWORD') is set
    notification_email,  \* os.getenv('NOTIFICATION_EMAIL') is set
    pc,                  \* position of the run
    session_gets,        \* GETs of the landing page by initialize_session
    session,             \* what initialize_session returned
    caught,              \* the exception run_check caught
    idx,                 \* dates of the window already requested
    response,            \* the response under extraction (SpecExtract)
    availability,        \* the last value check_court_availability returned
    summary,             \* the summary get_all_slots_summary is building
    notifications,       \* the calls of send_notification, with their outcome
    result               \* what run_check returned

vars == <<email_user, email_password, notification_email, pc, session_gets,
          session, caught, idx, response, availability, summary, notifications, result>>

----------------------------------------------------------------------------
(* Bounds of the explored inputs *)

MaxRows == 2        \* rows of one availability table of a run
MaxCells == 3       \* court cells of one availability table of a run
ExtractRows == 2    \* rows of a table the extractor is checked on alone
ExtractCells == 2   \* court cells of such a table
MaxSlots == 2       \* slots collected in a summary
MaxClosedDays == 1  \* closed days collected in a summary

----------------------------------------------------------------------------
(* Values *)

None == "None"           \* Python None, and a key a dict does not have
NoTime == "NoTime"       \* the row has no <th class="time">
NoMessage == <<None>>    \* the report has no 'message' key
KeyError == "KeyError"   \* court_data[court_name] for a court it does not hold

NumDates == 7
KnownCourts == 2

\* the window built backwards
get_available_dates_descending == [i \in 1..NumDates |-> NumDates - i]

\* dates.append(today + timedelta(days=i)) for i in range(7)
get_available_dates == [i \in 1..NumDates |-> i - 1]

----------------------------------------------------------------------------------------------------------------------------------------
(* Documents.  A document is what the extractor's lookups see of a page:    *)
(*   closed : the first <p class="closed">, if any, and its text            *)
(*   div    : there is a <div class="availability">                         *)
(*   table  : that div has a <table>                                        *)
(*   shape  : for each <tr> of the table, the number of its                 *)
(*            <label class="court"> cells                                   *)
(*   times  : for each <tr>, the text of its <th class="time">, or NoTime   *)
(*   cells  : the court cells of all rows in document order, each with the  *)
(*            class tokens of its first <span class="button">, if any       *)
(* A text is the sequence of its characters; " " is whitespace.             *)

StatusClasses == {"available", "booked", "session"}

NoSpan == [button |-> FALSE, classes |-> {}]

Span(tokens) == [button |-> TRUE, classes |-> {"button"} \cup tokens]

\* every combination of the three status classes, a class that merely
\* contains the word, and a label without a button
AllCells ==
    {NoSpan, Span({"unavailable"})} \cup {Span(S) : S \in SUBSET StatusClasses}

PlainCells == {Span({c}) : c \in StatusClasses}

TimeLabels == {"18:00", "19:00"}

NoClosed == [present |-> FALSE, text |-> << >>]

Closed(text) == [present |-> TRUE, text |-> text]

ClosedText == <<" ", "c", "l", "o", "s", "e", "d", " ">>

RECURSIVE Sum(_)
Sum(ns) == IF ns = << >> THEN 0 ELSE Head(ns) + Sum(Tail(ns))

RECURSIVE Shapes(_, _)
\* the tables of at most r rows and at most b court cells
Shapes(r, b) ==
    IF r = 0 THEN {<< >>}
    ELSE {<< >>} \cup
         UNION {{<<n>> \o rest : rest \in Shapes(r - 1, b - n)} : n \in 0..b}

\* the documents with an availability table of the given shape
TableDocs(shape, markers, cells, times) ==
    [closed : markers, div : {TRUE}, table : {TRUE}, shape : {shape},
     times : [1..Len(shape) -> times], cells : [1..Sum(shape) -> cells]]

\* the documents without an availability table
BareDocs(markers) ==
    [closed : markers, div : BOOLEAN, table : {FALSE}, shape : {<< >>},
     times : {<< >>}, cells : {<< >>}]

\* the court cells of row r
RowCells(doc, r) ==
    LET before == Sum(SubSeq(doc.shape, 1, r - 1))
    IN  SubSeq(doc.cells, before + 1, before + doc.shape[r])

----------------
(* check_court_availability *)

RECURSIVE lstrip(_)
lstrip(s) == IF s # << >> /\ Head(s) = " " THEN lstrip(Tail(s)) ELSE s

RECURSIVE rstrip(_)
rstrip(s) ==
    IF s # << >> /\ s[Len(s)] = " " THEN rstrip(SubSeq(s, 1, Len(s) - 1)) ELSE s

\* get_text(strip=True) of an element holding one string
get_text(s) == rstrip(lstrip(s))

\* an unknown status taken for an available court
ButtonCategory_default_available(classes) ==
    IF "booked" \in classes /\ "available" \notin classes THEN "booked_times"
    ELSE IF "session" \in classes /\ "available" \notin classes THEN "session_times"
    ELSE "available_times"

\* the if / elif / elif over button.get('class', [])
ButtonCategory(classes) ==
    IF "available" \in classes THEN "available_times"
    ELSE IF "booked" \in classes THEN "booked_times"
    ELSE IF "session" \in classes THEN "session_times"
    ELSE None

court_data ==
    [c \in 1..KnownCourts |->
        [available_times |-> << >>, booked_times |-> << >>, session_times |-> << >>]]

\* one court cell of a row: acc is [raised, courts]
ParseCell(acc, time_str, i, court_cell) ==
    IF acc.raised # None \/ ~court_cell.button THEN acc
    ELSE LET category == ButtonCategory(court_cell.classes) IN
         IF category = None THEN acc
         ELSE IF i \notin DOMAIN acc.courts THEN [acc EXCEPT !.raised = KeyError]
         ELSE [acc EXCEPT !.courts[i][category] = Append(@, time_str)]

RECURSIVE ParseCells(_, _, _, _)
ParseCells(acc, time_str, court_cells, i) ==
    IF i > Len(court_cells) THEN acc
    ELSE ParseCells(ParseCell(acc, time_str, i, court_cells[i]),
                    time_str, court_cells, i + 1)

\* a row without a time cell parsed like any other row
ParseRow_without_skip(acc, doc, r) ==
    ParseCells(acc, doc.times[r], RowCells(doc, r), 1)

\* one row of the table: a row without a time cell is skipped
ParseRow(acc, doc, r) ==
    IF doc.times[r] = NoTime THEN acc
    ELSE ParseCells(acc, doc.times[r], RowCells(doc, r), 1)

RECURSIVE ParseRows(_, _, _)
ParseRows(acc, doc, r) ==
    IF r > Len(doc.shape) THEN acc
    ELSE ParseRows(ParseRow(acc, doc, r), doc, r + 1)

\* the closed marker looked up only on a page without an availability div
closed_element_without_div(doc) == IF doc.div THEN NoClosed ELSE doc.closed

\* soup.find('p', class_='closed')
closed_element(doc) == doc.closed

\* the availability dict: a key the dict lacks reads None (NoMessage)
NewAvailability(date) ==
    [date |-> date, courts |-> << >>, error |-> None,
     status |-> None, message |-> NoMessage]

\* A response is [exc, doc]: exc is None, or str(e) of the RequestException
\* that session.get / raise_for_status raised.
\* The value is [raised, value]: the exception that leaves the function, if
\* any, and the dict it returns otherwise.
check_court_availability(date, resp) ==
    LET new == NewAvailability(date)
        doc == resp.doc
    IN  IF resp.exc # None
        THEN [raised |-> None, value |-> [new EXCEPT !.error = resp.exc]]
        ELSE IF closed_element(doc).present
        THEN [raised |-> None,
              value |-> [new EXCEPT !.status = "closed",
                                    !.message = get_text(closed_element(doc).text)]]
        ELSE IF doc.div /\ doc.table
        THEN LET parsed == ParseRows([raised |-> None, courts |-> court_data],
                                     doc, 1)
             IN  IF parsed.raised # None
                 THEN [raised |-> parsed.raised, value |-> new]
                 ELSE [raised |-> None,
                       value |-> [new EXCEPT !.courts = parsed.courts,
                                             !.status = "open"]]
        ELSE [raised |-> None, value |-> [new EXCEPT !.status = "open"]]

----------------------------------------------------------------------------
(* get_all_slots_summary *)

EmptySummary ==
    [available_slots |-> << >>, booked_slots |-> << >>,
     session_slots |-> << >>, closed_days |-> << >>]

\* bool(x) of a value that is None or a str
Truthy(x) == x # None /\ x # ""

\* the slots one court adds to one list
CourtSlots(date, court, times) ==
    [k \in 1..Len(times) |-> [date |-> date, time |-> times[k], court |-> court]]

RECURSIVE AddCourts(_, _, _)
\* for court, times in availability['courts'].items(), from court c on
AddCourts(s, a, c) ==
    IF c > Len(a.courts) THEN s
    ELSE AddCourts(
           [s EXCEPT
              !.available_slots = @ \o CourtSlots(a.date, c, a.courts[c].available_times),
              !.booked_slots = @ \o CourtSlots(a.date, c, a.courts[c].booked_times),
              !.session_slots = @ \o CourtSlots(a.date, c, a.courts[c].session_times)],
           a, c + 1)

\* a failed day recorded as a closed day
Aggregate_failed_as_closed(s, a) ==
    IF a.status = "closed" \/ a.error # None
    THEN [s EXCEPT !.closed_days = Append(@, [date |-> a.date, message |-> a.message])]
    ELSE AddCourts(s, a, 1)

\* the body of the loop over dates, after check_court_availability returned a
Aggregate(s, a) ==
    IF Truthy(a.error) THEN s
    ELSE IF a.status = "closed"
    THEN [s EXCEPT !.closed_days =
            Append(@, [date |-> a.date,
                       message |-> IF a.message = NoMessage
                                   THEN <<"C", "l", "o", "s", "e", "d">>
                                   ELSE a.message])]
    ELSE AddCourts(s, a, 1)

TotalSlots(s) ==
    Len(s.available_slots) + Len(s.booked_slots) + Len(s.session_slots)

----------------------------------------------------------------------------------------------------------------------------------------
(* The site *)

NoDoc ==
    [closed |-> NoClosed, div |-> FALSE, table |-> FALSE, shape |-> << >>,
     times |-> << >>, cells |-> << >>]

NoResponse == [exc |-> None, doc |-> NoDoc]

\* str(e) of a RequestException
ExcTexts == {"", "404 Client Error"}

Failed(e) == [exc |-> e, doc |-> NoDoc]

Served(d) == [exc |-> None, doc |-> d]

Max(a, b) == IF a > b THEN a ELSE b

\* the tables of a run, every row with a court cell, by the number of court
\* cells they may hold
FullShapesUpTo ==
    [b \in 0..MaxCells |->
        {shape \in Shapes(MaxRows, b) : \A r \in 1..Len(shape) : shape[r] > 0}]

\* the pages of a run without a table: no availability div, or a closed venue
RunBareDocs == {NoDoc, [NoDoc EXCEPT !.closed = Closed(ClosedText)]}

----------------------------------------------------------------------------
(* GitHubCourtMonitor *)

AvailableSubject(n) == [kind |-> "available", count |-> n]

ErrorSubject == [kind |-> "error", count |-> 0]

\* the calls send_notification(subject, body) can make of itself: skipped when
\* the configuration is incomplete, else sent, or an exception of the SMTP
\* exchange caught and logged
send_notification(subject) ==
    IF ~(email_user /\ email_password /\ notification_email)
    THEN {[subject |-> subject, outcome |-> "skipped", returned |-> FALSE]}
    ELSE {[subject |-> subject, outcome |-> "sent", returned |-> TRUE],
          [subject |-> subject, outcome |-> "smtp_error", returned |-> FALSE]}

\* the error report attempted whatever the configuration
Except_always_reports(e) ==
    /\ caught' = e
    /\ \E n \in send_notification(ErrorSubject) :
         notifications' = Append(notifications, n)
    /\ result' = "False"
    /\ pc' = "exit"

\* except Exception as e: of run_check
Except(e) ==
    /\ caught' = e
    /\ IF email_user /\ notification_email
       THEN \E n \in send_notification(ErrorSubject) :
               notifications' = Append(notifications, n)
       ELSE notifications' = notifications
    /\ result' = "False"
    /\ pc' = "exit"

Init ==
    /\ email_user \in BOOLEAN
    /\ email_password \in BOOLEAN
    /\ notification_email \in BOOLEAN
    /\ pc = "run_check"
    /\ session_gets = 0
    /\ session = None
    /\ caught = None
    /\ idx = 0
    /\ response = NoResponse
    /\ availability = NewAvailability(0)
    /\ summary = EmptySummary
    /\ notifications = << >>
    /\ result = None

\* a failed bootstrap handled like an exception
SessionFailed_as_exception == Except("Exception")

\* if not self.checker.initialize_session(): return False
SessionFailed ==
    /\ pc' = "exit"
    /\ result' = "False"
    /\ UNCHANGED <<notifications, caught>>

\* run_check up to the return of initialize_session
InitializeSession ==
    /\ pc = "run_check"
    /\ session_gets' = session_gets + 1
    /\ \E outcome \in {"ok", "RequestException", "Exception"} :
         CASE outcome = "ok" ->
                /\ session' = "True"
                /\ pc' = "get_all_slots_summary"
                /\ UNCHANGED <<notifications, result, caught>>
           [] outcome = "RequestException" ->
                /\ session' = "False"
                /\ SessionFailed
           [] outcome = "Exception" ->
                /\ session' = session
                /\ Except("Exception")
    /\ UNCHANGED <<email_user, email_password, notification_email, idx,
                   response, availability, summary>>

\* check_court_availability(date) answered by r, and the rest of the loop body
CheckDate(r) ==
    LET out == check_court_availability(get_available_dates[idx + 1], r) IN
    /\ response' = r
    /\ IF out.raised # None
       THEN /\ Except(out.raised)
            /\ UNCHANGED <<availability, summary>>
       ELSE /\ availability' = out.value
            /\ summary' = Aggregate(summary, out.value)
            /\ TotalSlots(summary') <= MaxSlots
            /\ Len(summary'.closed_days) <= MaxClosedDays
            /\ UNCHANGED <<pc, notifications, result, caught>>

\* one date of the loop of get_all_slots_summary, on a site whose tables are
\* made of the given cells and time labels
SummaryDate(cells, times) ==
    /\ pc = "get_all_slots_summary"
    /\ idx < NumDates
    /\ idx' = idx + 1
    /\ \/ \E e \in ExcTexts : CheckDate(Failed(e))
       \/ \E d \in RunBareDocs : CheckDate(Served(d))
       \/ \E shape \in FullShapesUpTo[Max(0, MaxCells - TotalSlots(summary))] :
            \E d \in TableDocs(shape, {NoClosed}, cells, times) :
               CheckDate(Served(d))
    /\ UNCHANGED <<email_user, email_password, notification_email, session_gets,
                   session>>

\* a notification for any slot found
ShouldNotify_any_slot(s) == s.available_slots # << >> \/ s.booked_slots # << >>

\* if summary['available_slots']:
ShouldNotify(s) == s.available_slots # << >>

\* the run reported by the delivery of its notification
Completed_if_delivered(sent) == IF sent THEN "True" ELSE "False"

\* return True, whatever send_notification returned
Completed(sent) == "True"

\* run_check from the return of get_all_slots_summary
Notify ==
    /\ pc = "get_all_slots_summary"
    /\ idx = NumDates
    /\ IF ShouldNotify(summary)
       THEN \E n \in send_notification(AvailableSubject(Len(summary.available_slots))) :
               /\ notifications' = Append(notifications, n)
               /\ result' = Completed(n.returned)
       ELSE /\ notifications' = notifications
            /\ result' = Completed(TRUE)
    /\ pc' = "exit"
    /\ UNCHANGED <<email_user, email_password, notification_email, session_gets,
                   session, caught, idx, response, availability, summary>>

\* a run of run_check, on a site of single-status tables with one time label
Next ==
    \/ InitializeSession
    \/ SummaryDate({Span({"available"}), Span({"booked"})}, {"18:00"})
    \/ Notify

Spec == Init /\ [][Next]_vars

\* exit(1) when run_check returned False
ExitStatus == IF result = "False" THEN 1 ELSE 0

----------------------------------------------------------------------------
(* The aggregation of a run whose session is initialized and whose email    *)
(* configuration is empty, on the tables of every status and time label     *)

InitSummary ==
    /\ email_user = FALSE
    /\ email_password = FALSE
    /\ notification_email = FALSE
    /\ pc = "get_all_slots_summary"
    /\ session_gets = 1
    /\ session = "True"
    /\ caught = None
    /\ idx = 0
    /\ response = NoResponse
    /\ availability = NewAvailability(0)
    /\ summary = EmptySummary
    /\ notifications = << >>
    /\ result = None

NextSummary == SummaryDate(PlainCells \cup {NoSpan}, TimeLabels) \/ Notify

SpecSummary == InitSummary /\ [][NextSummary]_vars

----------------------------------------------------------------------------
(* The extractor alone, on every document *)

InitExtract ==
    /\ email_user = FALSE
    /\ email_password = FALSE
    /\ notification_email = FALSE
    /\ pc = "check_court_availability"
    /\ session_gets = 0
    /\ session = None
    /\ caught = None
    /\ idx = 0
    /\ \/ \E e \in ExcTexts : response = Failed(e)
       \/ \E d \in BareDocs({NoClosed, Closed(ClosedText)}) : response = Served(d)
       \/ \E shape \in Shapes(ExtractRows, ExtractCells) :
            \E d \in TableDocs(shape, {NoClosed, Closed(ClosedText)},
                                AllCells, TimeLabels \cup {NoTime}) :
               response = Served(d)
    /\ availability = NewAvailability(0)
    /\ summary = EmptySummary
    /\ notifications = << >>
    /\ result = None

Extract ==
    /\ pc = "check_court_availability"
    /\ LET out == check_court_availability(0, response) IN
         IF out.raised # None
         THEN pc' = "raised" /\ UNCHANGED availability
         ELSE pc' = "returned" /\ availability' = out.value
    /\ UNCHANGED <<email_user, email_password, notification_email, session_gets,
                   session, caught, idx, response, summary, notifications, result>>

NextExtract == Extract

SpecExtract == InitExtract /\ [][NextExtract]_vars

----------------------------------------------------------------------------
(* Properties of check_court_availability (SpecExtract) *)

Returned == pc = "returned"

Doc == response.doc

CellAt(doc, r, c) == RowCells(doc, r)[c]

\* the rows labelled t whose court cell c has a status indicator satisfying P
Indicators(doc, t, c, P(_)) ==
    {r \in 1..Len(doc.shape) :
        /\ doc.times[r] = t
        /\ c <= doc.shape[r]
        /\ CellAt(doc, r, c).button
        /\ P(CellAt(doc, r, c).classes)}

Occurrences(seq, x) == Cardinality({k \in 1..Len(seq) : seq[k] = x})

\* m is t without its leading and trailing whitespace
IsStripped(m, t) ==
    /\ m # << >> => m[1] # " " /\ m[Len(m)] # " "
    /\ \E a \in 0..Len(t) :
         /\ a + Len(m) <= Len(t)
         /\ SubSeq(t, a + 1, a + Len(m)) = m
         /\ \A k \in 1..Len(t) : (k <= a \/ k > a + Len(m)) => t[k] = " "

\* C1: a document with a closed-venue marker yields status 'closed', the
\* marker's text (whitespace-stripped) as the message and an empty court
\* mapping, whatever else the document contains.
C1_ClosedReport ==
    (pc # "check_court_availability" /\ response.exc = None /\ Doc.closed.present)
    => /\ Returned
       /\ availability.status = "closed"
       /\ IsStripped(availability.message, Doc.closed.text)
       /\ availability.courts = << >>
       /\ availability.error = None

\* a closed page that also carries a table with an available court was extracted
C1_Witness ==
    /\ Returned
    /\ Doc.closed.present
    /\ Doc.table
    /\ \E t \in TimeLabels, c \in 1..KnownCourts :
         Indicators(Doc, t, c, LAMBDA cl : cl = {"button", "available"}) # {}
    /\ availability.status = "closed"

ParsedTable ==
    Returned /\ response.exc = None /\ ~Doc.closed.present /\ Doc.div /\ Doc.table

TimesOf(c, category) == availability.courts[c][category]

\* C2 as claimed: only an indicator with exactly one of the three classes puts
\* its slot in a category.
C2_OnlyExactlyOne ==
    ParsedTable =>
    \A c \in 1..KnownCourts, t \in TimeLabels :
        Occurrences(TimesOf(c, "available_times"), t)
        + Occurrences(TimesOf(c, "booked_times"), t)
        + Occurrences(TimesOf(c, "session_times"), t)
        <= Cardinality(Indicators(Doc, t, c,
               LAMBDA cl : Cardinality(cl \cap StatusClasses) = 1))

\* C2: an indicator with none of the classes available, booked, session (and a
\* cell without indicator) puts its slot in no category; an indicator with
\* one or more of them puts it in exactly one: the first of available, booked,
\* session that it carries.
C2_FirstClassWins ==
    ParsedTable =>
    \A c \in 1..KnownCourts, t \in TimeLabels :
        /\ Occurrences(TimesOf(c, "available_times"), t)
           = Cardinality(Indicators(Doc, t, c, LAMBDA cl : "available" \in cl))
        /\ Occurrences(TimesOf(c, "booked_times"), t)
           = Cardinality(Indicators(Doc, t, c,
                LAMBDA cl : "booked" \in cl /\ "available" \notin cl))
        /\ Occurrences(TimesOf(c, "session_times"), t)
           = Cardinality(Indicators(Doc, t, c,
                LAMBDA cl : "session" \in cl /\ {"available", "booked"} \cap cl = {}))

\* a table with an indicator of no status class and one of two was extracted
C2_Witness ==
    /\ ParsedTable
    /\ \E t \in TimeLabels, c \in 1..KnownCourts :
         Indicators(Doc, t, c, LAMBDA cl : cl \cap StatusClasses = {}) # {}
    /\ \E t \in TimeLabels, c \in 1..KnownCourts :
         Indicators(Doc, t, c, LAMBDA cl : Cardinality(cl \cap StatusClasses) > 1) # {}

RECURSIVE LabelsFrom(_, _, _, _)
\* the time labels, in row order from row r on, of the rows that have a time
\* cell and whose court cell c carries an indicator of the category
LabelsFrom(doc, c, category, r) ==
    IF r > Len(doc.shape) THEN << >>
    ELSE LET counts ==
                 /\ doc.times[r] # NoTime
                 /\ c <= doc.shape[r]
                 /\ CellAt(doc, r, c).button
                 /\ ButtonCategory(CellAt(doc, r, c).classes) = category
         IN  (IF counts THEN <<doc.times[r]>> ELSE << >>)
             \o LabelsFrom(doc, c, category, r + 1)

\* the rows without a time cell that have a court cell with a status indicator
\* of one of the three categories
TimelessRows(doc) ==
    {r \in 1..Len(doc.shape) :
        /\ doc.times[r] = NoTime
        /\ \E c \in 1..doc.shape[r] :
             /\ CellAt(doc, r, c).button
             /\ ButtonCategory(CellAt(doc, r, c).classes) # None}

Categories == {"available_times", "booked_times", "session_times"}

\* C11: a table row lacking a time cell produces no slot in any court's
\* available, booked or session list, whatever its court cells and status
\* indicators are, and the other rows of the table are still processed: each
\* list holds exactly the labels of the rows that have a time cell and an
\* indicator of its category in that court's cell, in row order.
C11_TimelessRowsSkipped ==
    ParsedTable =>
    \A c \in 1..KnownCourts, category \in Categories :
        /\ TimesOf(c, category) = LabelsFrom(Doc, c, category, 1)
        /\ \A k \in 1..Len(TimesOf(c, category)) :
             TimesOf(c, category)[k] # NoTime

\* a table was extracted whose first row has no time cell but an indicator
\* with a status class, and whose later row with a time cell produced a slot
C11_Witness ==
    /\ ParsedTable
    /\ 1 \in TimelessRows(Doc)
    /\ \E r \in 2..Len(Doc.shape) : Doc.times[r] # NoTime
    /\ \E c \in 1..KnownCourts, category \in Categories :
         Len(TimesOf(c, category)) > 0

----------------------------------------------------------------------------
(* Properties of get_all_slots_summary (SpecSummary; C4 under Spec) *)

SlotLists == {"available_slots", "booked_slots", "session_slots"}

AllLists == SlotLists \cup {"closed_days"}

StatusOf(list) ==
    CASE list = "available_slots" -> "available"
      [] list = "booked_slots" -> "booked"
      [] list = "session_slots" -> "session"

Slot(e) == <<e.date, e.time, e.court>>

\* C3 as claimed: no (date, time, court) is in two of the three slot lists.
C3_OneCategoryPerSlot ==
    \A l1, l2 \in SlotLists :
        l1 # l2 =>
        \A i \in 1..Len(summary[l1]), j \in 1..Len(summary[l2]) :
            Slot(summary[l1][i]) # Slot(summary[l2][j])

\* C4: the date whose fetch failed leaves every list of the summary as it
\* was: it adds no slot and no closed day.
C4_FailedDateAddsNothing ==
    [][(idx' = idx + 1 /\ response'.exc # None)
        => /\ availability'.error = response'.exc
           /\ \A l \in AllLists : summary'[l] = summary[l]]_vars

\* a date failed after another date had put an entry in the summary
C4_Witness ==
    /\ idx >= 2
    /\ response.exc # None
    /\ availability.error = response.exc
    /\ availability.date = idx - 1
    /\ summary # EmptySummary

\* C5 as claimed: whatever a date's fetch or parse does, all 7 dates are
\* processed and the summary is returned to run_check.
C5_EveryDateProcessed ==
    pc = "exit" => idx = NumDates /\ result = "True"

\* the last response was a page with a table, and the extractor returned
ParsedLast ==
    /\ idx >= 1
    /\ caught = None
    /\ response.exc = None
    /\ ~Doc.closed.present
    /\ Doc.table

\* the court cell c of row r holds a slot of the status (tables of
\* single-status indicators)
HoldsSlot(doc, r, c, status) ==
    /\ doc.times[r] # NoTime
    /\ c <= doc.shape[r]
    /\ CellAt(doc, r, c).button
    /\ CellAt(doc, r, c).classes \cap StatusClasses = {status}

RECURSIVE Walk(_, _, _, _, _)
\* the slots of the status in the table, from the n-th (row, court) pair on:
\* row by row, or court by court
Walk(doc, date, status, n, byRow) ==
    LET rows == Len(doc.shape)
        r == IF byRow THEN ((n - 1) \div KnownCourts) + 1 ELSE ((n - 1) % rows) + 1
        c == IF byRow THEN ((n - 1) % KnownCourts) + 1 ELSE ((n - 1) \div rows) + 1
    IN  IF n > rows * KnownCourts THEN << >>
        ELSE (IF HoldsSlot(doc, r, c, status)
              THEN <<[date |-> date, time |-> doc.times[r], court |-> c]>>
              ELSE << >>)
             \o Walk(doc, date, status, n + 1, byRow)

OfDate(list, date) == SelectSeq(summary[list], LAMBDA e : e.date = date)

DatesAscend(list) ==
    \A i, j \in 1..Len(summary[list]) :
        i < j => summary[list][i].date <= summary[list][j].date

\* C9 as claimed: each list is ordered by date, and within a date by the
\* document's traversal order, row by row and cell by cell.
C9_DocumentOrder ==
    /\ \A l \in AllLists : DatesAscend(l)
    /\ ParsedLast =>
         \A l \in SlotLists :
            OfDate(l, idx - 1) = Walk(Doc, idx - 1, StatusOf(l), 1, TRUE)

\* C9: each list is ordered by date ascending from today; within a date by
\* court, court_1 before court_2; within a court by the order of the rows.
C9_DateCourtRowOrder ==
    /\ \A l \in AllLists : DatesAscend(l)
    /\ \A l \in AllLists :
         \A i \in 1..Len(summary[l]) : summary[l][i].date \in 0..(idx - 1)
    /\ ParsedLast =>
         \A l \in SlotLists :
            OfDate(l, idx - 1) = Walk(Doc, idx - 1, StatusOf(l), 1, FALSE)

\* a table put court_2 of its first row and court_1 of its second row, of
\* different time labels, in the same list
C9_Witness ==
    /\ ParsedLast
    /\ Len(Doc.shape) = 2
    /\ \E l \in SlotLists :
         /\ HoldsSlot(Doc, 1, 2, StatusOf(l))
         /\ HoldsSlot(Doc, 2, 1, StatusOf(l))
         /\ Len(OfDate(l, idx - 1)) = 2
         /\ Doc.times[1] # Doc.times[2]

----------------------------------------------------------------------------
(* Properties of run_check (Spec) *)

ConfigComplete == email_user /\ email_password /\ notification_email

C7_BootstrapFailureIsTerminal ==
    session = "False"
    => /\ pc = "exit"
       /\ result = "False"
       /\ ExitStatus = 1
       /\ session_gets = 1
       /\ idx = 0
       /\ response = NoResponse
       /\ notifications = << >>

\* the bootstrap failed in a run whose email configuration is complete
C7_Witness == session = "False" /\ ConfigComplete

\* C8: when the availability email is not delivered (an SMTP error, or no
\* attempt because the configuration is incomplete), send_notification
\* returns False, no error report follows and run_check returns True (exit
\* status 0).
C8_UndeliveredStillSucceeds ==
    \A k \in 1..Len(notifications) :
        (notifications[k].subject.kind = "available"
         /\ notifications[k].outcome # "sent")
        => /\ ~notifications[k].returned
           /\ notifications[k].outcome
                = (IF ConfigComplete THEN "smtp_error" ELSE "skipped")
           /\ Len(notifications) = 1
           /\ caught = None
           /\ pc = "exit"
           /\ result = "True"
           /\ ExitStatus = 0

\* the availability email met an SMTP error
C8_Witness ==
    /\ pc = "exit"
    /\ summary.available_slots # << >>
    /\ Len(notifications) = 1
    /\ notifications[1].outcome = "smtp_error"

\* C10: an exception raised inside run_check is caught there: the run ends
\* with at most one call of send_notification, for the error report and only
\* when sender and recipient are configured, and run_check returns False
\* (exit status 1).
C10_ExceptionCaughtOnce ==
    caught # None
    => /\ pc = "exit"
       /\ result = "False"
       /\ ExitStatus = 1
       /\ Len(notifications) <= 1
       /\ \A k \in 1..Len(notifications) :
            /\ notifications[k].subject = ErrorSubject
            /\ email_user /\ notification_email

\* the extractor raised on a later date and the error report was sent
C10_Witness ==
    /\ caught = KeyError
    /\ idx >= 2
    /\ Len(notifications) = 1
    /\ notifications[1].outcome = "sent"

====
